---- MODULE Spec2Model ----
(***************************************************************************)
(* Model of the lookip control socket of libcharon                         *)
(* (src/libcharon/plugins/lookip/lookip_socket.c): service creation, the   *)
(* accept/dispatch job, subscriptions, the listener callback and teardown. *)
(* The Lease Directory (lookip_listener) and the wire message layout       *)
(* (lookip_msg.h) are collaborators, modelled from their description.      *)
(***************************************************************************)
EXTENDS Integers, Sequences, FiniteSets, TLC

(* ------------------------------ bounds -------------------------------- *)

\* connections accepted over a run
MaxConns == 2
\* entry_t objects allocated by subscribe over a run
MaxEntries == 2
\* lease events fired by the directory over a run
MaxEvents == 2
\* full-size requests read on one connection
MaxReqs == 2

(* ----------------------------- constants ------------------------------ *)

\* threads: the receive job and two threads raising lease events
Notifiers == {"n1", "n2"}
Threads == {"h"} \cup Notifiers

\* descriptor numbers accept() can hand out; NoFd is the -1 of the C code
FDSet == 1..MaxConns
NoFd == -1

\* virtual addresses the directory can lease
VIPs == {1, 2}
NoHost == 0

\* lookip_msg.h message types
RequestTypes == {"LOOKUP", "DUMP", "REGISTER_UP", "REGISTER_DOWN", "END"}
ResponseTypes == {"ENTRY", "NOTIFY_UP", "NOTIFY_DOWN"}

\* capacity of the char buffers of lookip_request_t / lookip_response_t
VipCap == 3
NameCap == 3

\* results of send(): sizeof(resp), 0, a short length, -1
SendResults == {"full", "zero", "partial", "err"}

(* ------------------------- strings and hosts -------------------------- *)

Min(a, b) == IF a < b THEN a ELSE b

\* buf[sizeof(buf) - 1] = 0: a buffer of cap bytes keeps at most cap-1 chars
Terminate(s, cap) == SubSeq(s, 1, Min(Len(s), cap - 1))

\* snprintf(buf, sizeof(buf), ...) truncates to the buffer
Snprintf(s, cap) == SubSeq(s, 1, Min(Len(s), cap - 1))

\* "%H" of a host
HostStr(v) == <<v, 0>>

\* host_create_from_string: the host the string names, or NULL
host_create_from_string(s) ==
    IF \E v \in VIPs : HostStr(v) = s
    THEN CHOOSE v \in VIPs : HostStr(v) = s
    ELSE NoHost

\* the address strings a client puts into a request
ReqStrings == {<<1, 0>>, <<2, 0>>, <<1, 0, 7>>, <<7>>}

\* the lease of a virtual address: peer, identity, connection name
LeasePeer(v) == <<v, 9>>
LeaseId(v) == <<v, 8>>
LeaseName(v) == IF v = 1 THEN <<5>> ELSE <<5, 6, 7>>

\* a listener_cb that copies the name without bounding it
ResponseUnbounded(type, v) ==
    [type |-> type,
     vip  |-> Snprintf(HostStr(v), VipCap),
     ip   |-> Snprintf(LeasePeer(v), VipCap),
     id   |-> Snprintf(LeaseId(v), NameCap),
     name |-> LeaseName(v)]

\* lookip_response_t filled in by listener_cb
Response(type, v) ==
    [type |-> type,
     vip  |-> Snprintf(HostStr(v), VipCap),
     ip   |-> Snprintf(LeasePeer(v), VipCap),
     id   |-> Snprintf(LeaseId(v), NameCap),
     name |-> Snprintf(LeaseName(v), NameCap)]

(* ------------------------------- state -------------------------------- *)

VARIABLES
    svc,        \* "none" | "running" | "failed" | "destroyed"
    sock,       \* this->socket: "none" | "open" | "closed"
    umask,      \* process umask: "orig" | "restricted"
    path,       \* TRUE while LOOKIP_SOCKET exists in the filesystem
    heap,       \* which of this, this->clients, this->mutex are allocated
    job,        \* TRUE once the receive job is queued
    fdtab,      \* descriptor table: fd -> connection id, 0 when closed
    nconn,      \* connections accepted so far
    closes,     \* connection id -> close() calls that hit its descriptor
    badClose,   \* TRUE once a close() hit a descriptor that was not open
    mem,        \* entry id -> entry_t fields
    alloc,      \* entry id -> "unalloc" | "live" | "freed"
    destroys,   \* entry id -> entry_destroy calls on it (capped at 2)
    failed,     \* entries a send() on which did not return the full size
    clients,    \* this->clients: sequence of entry ids
    mutex,      \* this->mutex: "free" | holder thread | "destroyed"
    listeners,  \* entries the directory calls back on events
    leases,     \* virtual addresses currently leased
    nevents,    \* events fired so far
    pc,         \* thread -> position
    cb,         \* thread -> arguments and locals of its listener_cb call
    todo,       \* thread -> what the directory still has to call back
    wlog,       \* send() calls of the query() in progress
    hfd,        \* receive: fd
    subscribed, \* receive: subscribed
    nreq,       \* requests read on the current connection
    req         \* receive: the request being served

vars == <<svc, sock, umask, path, heap, job, fdtab, nconn, closes, badClose,
          mem, alloc, destroys, failed, clients, mutex, listeners, leases, nevents,
          pc, cb, todo, wlog, hfd, subscribed, nreq, req>>

svcVars == <<svc, sock, umask, path, heap, job>>
fdVars == <<fdtab, nconn, closes, badClose>>
entVars == <<mem, alloc, destroys, failed>>
dirVars == <<listeners, leases, nevents>>
hVars == <<hfd, subscribed, nreq, req>>

Entries == 1..MaxEntries
Conns == 1..MaxConns

\* the entry_t on the stack of query()
Transient == 0

NoCb == [ent |-> Transient, up |-> TRUE, vip |-> NoHost, type |-> "ENTRY",
         res |-> "none", conn |-> 0, ret |-> TRUE]
NoReq == [type |-> "END", vip |-> <<>>]
NoEntry == [fd |-> NoFd, type |-> "ENTRY", this |-> FALSE]

Init ==
    /\ svc = "none"
    /\ sock = "none"
    /\ umask = "orig"
    /\ path \in BOOLEAN
    /\ heap = [this |-> FALSE, clients |-> FALSE, mutex |-> FALSE]
    /\ job = FALSE
    /\ fdtab = [f \in FDSet |-> 0]
    /\ nconn = 0
    /\ closes = [c \in Conns |-> 0]
    /\ badClose = FALSE
    /\ mem = [e \in Entries |-> NoEntry]
    /\ alloc = [e \in Entries |-> "unalloc"]
    /\ destroys = [e \in Entries |-> 0]
    /\ failed = {}
    /\ clients = <<>>
    /\ mutex = "free"
    /\ listeners = {}
    /\ leases = {}
    /\ nevents = 0
    /\ pc = [t \in Threads |-> IF t = "h" THEN "none" ELSE "idle"]
    /\ cb = [t \in Threads |-> NoCb]
    /\ todo = [t \in Threads |-> <<>>]
    /\ wlog = <<>>
    /\ hfd = NoFd
    /\ subscribed = FALSE
    /\ nreq = 0
    /\ req = NoReq

(* --------------------------- service creation ------------------------- *)

\* open_socket: the state it leaves behind when the given call fails
open_socket(fault, p) ==
    IF fault = "socket"
    THEN [ok |-> FALSE, sock |-> "none", umask |-> "orig", path |-> p]
    ELSE IF fault = "bind"
    THEN [ok |-> FALSE, sock |-> "closed", umask |-> "restricted",
          path |-> FALSE]
    ELSE IF fault = "listen"
    THEN [ok |-> FALSE, sock |-> "closed", umask |-> "orig", path |-> FALSE]
    ELSE [ok |-> TRUE, sock |-> "open", umask |-> "orig", path |-> TRUE]

Faults == {"none", "socket", "bind", "chown", "listen"}

\* lookip_socket_create
lookip_socket_create(fault) ==
    /\ svc = "none"
    /\ LET r == open_socket(fault, path) IN
        /\ sock' = r.sock
        /\ umask' = r.umask
        /\ path' = r.path
        /\ IF r.ok
           THEN /\ svc' = "running"
                /\ heap' = [this |-> TRUE, clients |-> TRUE, mutex |-> TRUE]
                /\ job' = TRUE
                /\ pc' = [pc EXCEPT !["h"] = "accept"]
           ELSE /\ svc' = "failed"
                \* free(this) only: the list and the mutex stay allocated
                /\ heap' = [this |-> FALSE, clients |-> TRUE, mutex |-> TRUE]
                /\ job' = FALSE
                /\ pc' = pc
    /\ UNCHANGED <<fdVars, entVars, clients, mutex, dirVars, cb, todo, wlog,
                   hVars>>

Create == \E fault \in Faults : lookip_socket_create(fault)

(* ------------------------- entries and descriptors -------------------- *)

\* a pointer to an entry_t that has been freed
Dangling(e) == e # Transient /\ alloc[e] = "freed"

\* a query() that sets up its entry as a down subscription
EntryTypeDown(e) ==
    IF e = Transient THEN {"NOTIFY_DOWN"} ELSE {mem[e].type}

\* what a read of an entry_t field can yield: the transient entry lives on
\* the stack of query(); the fields of a freed entry yield what the memory
\* holds now (the type as it was left, unless the access faults, see Fault)
EntryType(e) ==
    IF e = Transient THEN {"ENTRY"}
    ELSE {mem[e].type}

EntryFd(e) ==
    IF e = Transient THEN {hfd}
    ELSE IF alloc[e] = "live" THEN {mem[e].fd}
    ELSE FDSet \cup {NoFd}

EntryThis(e) ==
    IF e = Transient THEN {FALSE}
    ELSE IF alloc[e] = "live" THEN {mem[e].this}
    ELSE BOOLEAN

IsOpen(fd) == fd \in FDSet /\ fdtab[fd] # 0

Bump(n) == Min(n + 1, 2)

\* close(fd): the descriptor table, close counts and EBADF flag afterwards
CloseFd(fd, st) ==
    IF fd \in FDSet /\ st.fdtab[fd] # 0
    THEN [fdtab |-> [st.fdtab EXCEPT ![fd] = 0],
          closes |-> [st.closes EXCEPT ![st.fdtab[fd]] = Bump(@)],
          badClose |-> st.badClose]
    ELSE [st EXCEPT !.badClose = TRUE]

FdState == [fdtab |-> fdtab, closes |-> closes, badClose |-> badClose]

\* a removal that drops the first item, whichever it is
RemoveFirst(list, e) == IF list = <<>> THEN <<>> ELSE Tail(list)

\* linked_list remove(): drops every item equal to e
RECURSIVE Remove(_, _)
Remove(list, e) ==
    IF list = <<>> THEN <<>>
    ELSE IF Head(list) = e THEN Remove(Tail(list), e)
    ELSE <<Head(list)>> \o Remove(Tail(list), e)

Range(list) == {list[i] : i \in 1..Len(list)}

(* --------------------------- Lease Directory -------------------------- *)

\* ascending sequence of a set of numbers
RECURSIVE SetToSeq(_)
SetToSeq(S) ==
    IF S = {} THEN <<>>
    ELSE LET m == CHOOSE x \in S : \A y \in S : x <= y
         IN <<m>> \o SetToSeq(S \ {m})

\* listener->lookup(listener, vip, cb, user): the leases cb is called for
lookup(v) ==
    IF v = NoHost THEN SetToSeq(leases)
    ELSE IF v \in leases THEN <<v>> ELSE <<>>

\* listener->add_listener(listener, cb, user)
add_listener(e) == listeners \cup {e}

\* where a thread continues when its listener_cb call returns r: lookup
\* goes on with the next lease, an event with the next listener, after
\* dropping a listener that returned FALSE
AfterCb(t, r) == IF t = "h" THEN "lookup" ELSE IF r THEN "notify" ELSE "cb_ret"

(* ------------------------------ listener_cb --------------------------- *)

\* a filter that forgets the second test (down events to NOTIFY_UP)
SuppressedUpOnly(up, type) == up /\ type = "NOTIFY_DOWN"

\* the record of the last send() is dropped
Forget(c) == [c EXCEPT !.type = NoCb.type, !.res = "none", !.conn = 0,
                       !.ret = TRUE]

\* the event filter of listener_cb
Suppressed(up, type) ==
    \/ up /\ type = "NOTIFY_DOWN"
    \/ ~up /\ type = "NOTIFY_UP"

Return(t, r) ==
    /\ pc' = [pc EXCEPT ![t] = AfterCb(t, r)]
    /\ cb' = [cb EXCEPT ![t].ret = r]

\* listener_cb up to the send: resp.type, the filter, the snprintf calls
CbFilter(t, e, up, v) ==
    \E type \in EntryType(e) :
        IF Suppressed(up, type)
        THEN /\ pc' = [pc EXCEPT ![t] = AfterCb(t, TRUE)]
             /\ cb' = [cb EXCEPT ![t] = [NoCb EXCEPT !.ent = e, !.up = up,
                                                     !.vip = v]]
        ELSE /\ pc' = [pc EXCEPT ![t] = "cb_send"]
             /\ cb' = [cb EXCEPT ![t] = [NoCb EXCEPT !.ent = e, !.up = up,
                                                     !.vip = v,
                                                     !.type = type]]

\* what send() on the descriptor can return
SendOutcomes(fd) == IF IsOpen(fd) THEN SendResults ELSE {"err"}

\* a switch that takes every result but 0 as a complete write
SendOkNonZero(res) == res # "zero"

\* a switch whose case labels are swapped
SendOkSwapped(res) == res = "zero"

\* the switch on the result of send(): TRUE when the callback returns TRUE
SendOk(res) == res = "full"

\* send(entry->fd, &resp, sizeof(resp), 0), the switch on its result and
\* the test of entry->this; cb[t] keeps what was sent, and to whom, until
\* the thread's next step
CbSend(t) ==
    /\ pc[t] = "cb_send"
    /\ \E fd \in EntryFd(cb[t].ent) : \E res \in SendOutcomes(fd) :
        LET conn == IF IsOpen(fd) THEN fdtab[fd] ELSE 0 IN
        /\ wlog' = IF t = "h"
                   THEN Append(wlog, [conn |-> conn, ok |-> res = "full",
                                      resp |-> Response(cb[t].type,
                                                        cb[t].vip)])
                   ELSE wlog
        /\ failed' = IF res = "full" \/ cb[t].ent = Transient
                      THEN failed ELSE failed \cup {cb[t].ent}
        /\ IF SendOk(res)
           THEN /\ pc' = [pc EXCEPT ![t] = AfterCb(t, TRUE)]
                /\ cb' = [cb EXCEPT ![t].res = res, ![t].conn = conn,
                                    ![t].ret = TRUE]
           ELSE \E this \in EntryThis(cb[t].ent) :
                IF this
                THEN /\ pc' = [pc EXCEPT ![t] = "cb_lock"]
                     /\ cb' = [cb EXCEPT ![t].res = res, ![t].conn = conn]
                ELSE /\ pc' = [pc EXCEPT ![t] = AfterCb(t, FALSE)]
                     /\ cb' = [cb EXCEPT ![t].res = res, ![t].conn = conn,
                                         ![t].ret = FALSE]
    /\ UNCHANGED <<svcVars, fdVars, mem, alloc, destroys, clients, mutex,
                   dirVars, todo, hVars>>

\* entry->this->mutex->lock()
CbLock(t) ==
    /\ pc[t] = "cb_lock"
    /\ IF mutex = "destroyed"
       THEN \* the service object is gone: the call falls through (or faults)
            /\ mutex' = mutex
            /\ pc' = [pc EXCEPT ![t] = "cb_locked"]
       ELSE /\ mutex = "free"
            /\ mutex' = t
            /\ pc' = [pc EXCEPT ![t] = "cb_locked"]
    /\ cb' = [cb EXCEPT ![t] = Forget(@)]
    /\ UNCHANGED <<svcVars, fdVars, entVars, clients, dirVars, todo, wlog,
                   hVars>>

\* a removal that returns without unlock()
CbRemoveNoUnlock(t) ==
    /\ pc[t] = "cb_locked"
    /\ clients' = Remove(clients, cb[t].ent)
    /\ pc' = [pc EXCEPT ![t] = "cb_destroy"]
    /\ UNCHANGED <<svcVars, fdVars, entVars, mutex, dirVars, cb, todo, wlog,
                   hVars>>

\* clients->remove(clients, entry, NULL); mutex->unlock()
CbRemove(t) ==
    /\ pc[t] = "cb_locked"
    /\ clients' = Remove(clients, cb[t].ent)
    /\ mutex' = IF mutex = t THEN "free" ELSE mutex
    /\ pc' = [pc EXCEPT ![t] = "cb_destroy"]
    /\ UNCHANGED <<svcVars, fdVars, entVars, dirVars, cb, todo, wlog, hVars>>

\* entry_destroy: close(this->fd); free(this)
entry_destroy(e, fd, st) ==
    [fds |-> CloseFd(fd, st.fds),
     alloc |-> [st.alloc EXCEPT ![e] = "freed"],
     destroys |-> [st.destroys EXCEPT ![e] = Bump(@)]]

EntState == [fds |-> FdState, alloc |-> alloc, destroys |-> destroys]

\* entry_destroy(entry); return FALSE
CbDestroy(t) ==
    /\ pc[t] = "cb_destroy"
    /\ \E fd \in EntryFd(cb[t].ent) :
        LET st == entry_destroy(cb[t].ent, fd, EntState) IN
        /\ fdtab' = st.fds.fdtab
        /\ closes' = st.fds.closes
        /\ badClose' = st.fds.badClose
        /\ alloc' = st.alloc
        /\ destroys' = st.destroys
    /\ Return(t, FALSE)
    /\ UNCHANGED <<svcVars, nconn, mem, failed, clients, mutex, dirVars, todo,
                   wlog, hVars>>

\* an access through a dangling entry pointer may fault instead
Fault(t) ==
    /\ pc[t] \in {"cb_send", "cb_lock", "cb_locked", "cb_destroy"}
    /\ Dangling(cb[t].ent)
    /\ pc' = [pc EXCEPT ![t] = "crashed"]
    /\ UNCHANGED <<svcVars, fdVars, entVars, clients, mutex, dirVars, cb,
                   todo, wlog, hVars>>

listener_cb(t) ==
    \/ CbSend(t)
    \/ CbLock(t)
    \/ CbRemove(t)
    \/ CbDestroy(t)
    \/ Fault(t)

(* ------------------------- lookups and events ------------------------- *)

\* lookup: one listener_cb call per matching lease, as an up event, on the
\* entry_t of query(); back to recv() when all are done
LookupNext ==
    /\ pc["h"] = "lookup"
    /\ IF todo["h"] = <<>>
       THEN /\ pc' = [pc EXCEPT !["h"] = "recv"]
            /\ cb' = [cb EXCEPT !["h"] = NoCb]
            /\ wlog' = <<>>
            /\ req' = NoReq
            /\ todo' = todo
       ELSE /\ CbFilter("h", Transient, TRUE, Head(todo["h"]))
            /\ todo' = [todo EXCEPT !["h"] = Tail(@)]
            /\ UNCHANGED <<wlog, req>>
    /\ UNCHANGED <<svcVars, fdVars, entVars, clients, mutex, dirVars, hfd,
                   subscribed, nreq>>

\* a lease goes up or down on a thread of the daemon; the listeners
\* registered now are the ones to notify.  The second thread raises an
\* event only while the first is busy (the threads are interchangeable).
Fire(t) ==
    /\ pc[t] = "idle"
    /\ t = "n2" => pc["n1"] # "idle"
    /\ nevents < MaxEvents
    /\ \E v \in VIPs :
        /\ leases' = IF v \in leases THEN leases \ {v} ELSE leases \cup {v}
        /\ cb' = [cb EXCEPT ![t] = [NoCb EXCEPT !.up = (v \notin leases),
                                                !.vip = v]]
    /\ nevents' = nevents + 1
    /\ todo' = [todo EXCEPT ![t] = SetToSeq(listeners)]
    /\ pc' = [pc EXCEPT ![t] = "notify"]
    /\ UNCHANGED <<svcVars, fdVars, entVars, clients, mutex, listeners, wlog,
                   hVars>>

\* call the next listener that is still registered
NotifyNext(t) ==
    /\ pc[t] = "notify"
    /\ IF todo[t] = <<>>
       THEN /\ pc' = [pc EXCEPT ![t] = "idle"]
            /\ cb' = [cb EXCEPT ![t] = NoCb]
            /\ todo' = todo
       ELSE /\ todo' = [todo EXCEPT ![t] = Tail(@)]
            /\ IF Head(todo[t]) \in listeners
               THEN CbFilter(t, Head(todo[t]), cb[t].up, cb[t].vip)
               ELSE /\ pc' = pc
                    /\ cb' = [cb EXCEPT ![t] = Forget(@)]
    /\ UNCHANGED <<svcVars, fdVars, entVars, clients, mutex, dirVars, wlog,
                   hVars>>

\* a callback that returned FALSE is dropped from the listeners
NotifyRet(t) ==
    /\ pc[t] = "cb_ret"
    /\ listeners' = listeners \ {cb[t].ent}
    /\ pc' = [pc EXCEPT ![t] = "notify"]
    /\ cb' = [cb EXCEPT ![t] = Forget(@)]
    /\ UNCHANGED <<svcVars, fdVars, entVars, clients, mutex, leases, nevents,
                   todo, wlog, hVars>>

(* ------------------------------- receive ------------------------------ *)

\* accept(): the lowest descriptor not in use
LowestFree == CHOOSE f \in FDSet : fdtab[f] = 0 /\ \A g \in FDSet :
                                       fdtab[g] = 0 => f <= g

HAccept ==
    /\ pc["h"] = "accept"
    /\ svc = "running"
    /\ \E ok \in BOOLEAN :
        IF ok /\ nconn < MaxConns
        THEN /\ fdtab' = [fdtab EXCEPT ![LowestFree] = nconn + 1]
             /\ nconn' = nconn + 1
             /\ hfd' = LowestFree
             /\ subscribed' = FALSE
             /\ nreq' = 0
             /\ pc' = [pc EXCEPT !["h"] = "recv"]
        ELSE /\ pc' = [pc EXCEPT !["h"] = "requeue"]
             /\ UNCHANGED <<fdtab, nconn, hfd, subscribed, nreq>>
    /\ UNCHANGED <<svcVars, closes, badClose, entVars, clients, mutex,
                   dirVars, cb, todo, wlog, req>>

\* a receive that returns JOB_REQUEUE_NONE: the job is not run again
RequeueNone ==
    /\ pc["h"] = "requeue"
    /\ pc' = [pc EXCEPT !["h"] = "done"]
    /\ req' = NoReq
    /\ UNCHANGED <<svcVars, fdVars, entVars, clients, mutex, dirVars, cb,
                   todo, wlog, hfd, subscribed, nreq>>

\* the scheduler runs the job again after JOB_REQUEUE_FAIR
Requeue ==
    /\ pc["h"] = "requeue"
    /\ pc' = [pc EXCEPT !["h"] = "accept"]
    /\ req' = NoReq
    /\ UNCHANGED <<svcVars, fdVars, entVars, clients, mutex, dirVars, cb,
                   todo, wlog, hfd, subscribed, nreq>>

\* what recv() can deliver: a full request, or another length
Requests ==
    [type : {"LOOKUP"}, vip : ReqStrings]
        \cup [type : (RequestTypes \ {"LOOKUP"}) \cup {"UNKNOWN"},
              vip : {<<>>}]
ShortReads == {"zero", "short"}

\* an end of loop that closes the descriptor whether subscribed or not
EndLoopCloseAlways ==
    /\ LET st == CloseFd(hfd, FdState) IN
        /\ fdtab' = st.fdtab
        /\ closes' = st.closes
        /\ badClose' = st.badClose
    /\ pc' = [pc EXCEPT !["h"] = "requeue"]
    /\ UNCHANGED <<nconn, entVars, cb, todo, subscribed>>

\* end of the read loop: close(fd) unless subscribed, return to the scheduler
EndLoop ==
    /\ LET st == IF subscribed THEN FdState ELSE CloseFd(hfd, FdState) IN
        /\ fdtab' = st.fdtab
        /\ closes' = st.closes
        /\ badClose' = st.badClose
    /\ pc' = [pc EXCEPT !["h"] = "requeue"]
    /\ UNCHANGED <<nconn, entVars, cb, todo, subscribed>>

\* a query() that passes NULL to lookup() for a single address as well
queryDumpAlways(r) ==
    /\ todo' = [todo EXCEPT !["h"] = lookup(NoHost)]
    /\ pc' = [pc EXCEPT !["h"] = "lookup"]
    /\ UNCHANGED <<fdVars, entVars, cb, subscribed>>

\* a query() without the test of the parsed address: a NULL host goes to
\* lookup() as it is
queryNoCheck(r) ==
    /\ todo' = [todo EXCEPT !["h"] =
                   lookup(IF r.type = "DUMP" THEN NoHost
                          ELSE host_create_from_string(
                                   Terminate(r.vip, VipCap)))]
    /\ pc' = [pc EXCEPT !["h"] = "lookup"]
    /\ UNCHANGED <<fdVars, entVars, cb, subscribed>>

\* query(): terminate and parse the address, then look it up; or dump
query(r) ==
    /\ IF r.type = "DUMP"
       THEN /\ todo' = [todo EXCEPT !["h"] = lookup(NoHost)]
            /\ pc' = [pc EXCEPT !["h"] = "lookup"]
       ELSE LET v == host_create_from_string(Terminate(r.vip, VipCap)) IN
            IF v # NoHost
            THEN /\ todo' = [todo EXCEPT !["h"] = lookup(v)]
                 /\ pc' = [pc EXCEPT !["h"] = "lookup"]
            ELSE UNCHANGED <<pc, todo>>
    /\ UNCHANGED <<fdVars, entVars, cb, subscribed>>

NextEntry == CHOOSE e \in Entries : alloc[e] = "unalloc" /\ \A g \in Entries :
                                        alloc[g] = "unalloc" => e <= g

\* subscribe(): INIT(entry, ...), up to the lock
subscribe(type) ==
    /\ mem' = [mem EXCEPT ![NextEntry] =
                  [fd |-> hfd, type |-> type, this |-> TRUE]]
    /\ alloc' = [alloc EXCEPT ![NextEntry] = "live"]
    /\ cb' = [cb EXCEPT !["h"] = [NoCb EXCEPT !.ent = NextEntry]]
    /\ pc' = [pc EXCEPT !["h"] = "sub_lock"]
    /\ UNCHANGED <<fdVars, destroys, failed, todo, subscribed>>

\* recv() and the dispatch on the request type
HRecv ==
    /\ pc["h"] = "recv"
    /\ \/ /\ ~IsOpen(hfd)
          /\ req' = NoReq
          /\ nreq' = nreq
          /\ EndLoop
       \/ /\ IsOpen(hfd)
          /\ \E len \in ShortReads :
              /\ req' = NoReq
              /\ nreq' = nreq
              /\ EndLoop
       \/ /\ IsOpen(hfd)
          /\ \E r \in Requests :
              \* query() terminates req->vip in place
              /\ req' = [r EXCEPT !.vip = Terminate(@, VipCap)]
              /\ IF r.type \in {"LOOKUP", "DUMP"}
                 THEN /\ nreq < MaxReqs
                      /\ nreq' = nreq + 1
                      /\ query(r)
                 ELSE IF r.type \in {"REGISTER_UP", "REGISTER_DOWN"}
                 THEN /\ nreq < MaxReqs
                      /\ \E e \in Entries : alloc[e] = "unalloc"
                      /\ nreq' = nreq + 1
                      /\ subscribe(IF r.type = "REGISTER_UP"
                                   THEN "NOTIFY_UP" ELSE "NOTIFY_DOWN")
                 ELSE /\ nreq' = nreq
                      /\ EndLoop
    /\ UNCHANGED <<svcVars, clients, mutex, dirVars, wlog, hfd>>

\* subscribe(): mutex->lock()
SubLock ==
    /\ pc["h"] = "sub_lock"
    /\ mutex = "free"
    /\ mutex' = "h"
    /\ pc' = [pc EXCEPT !["h"] = "sub_insert"]
    /\ UNCHANGED <<svcVars, fdVars, entVars, clients, dirVars, cb, todo,
                   wlog, hVars>>

\* subscribe(): clients->insert_last(clients, entry); mutex->unlock()
SubInsert ==
    /\ pc["h"] = "sub_insert"
    /\ clients' = Append(clients, cb["h"].ent)
    /\ mutex' = "free"
    /\ pc' = [pc EXCEPT !["h"] = "sub_add"]
    /\ UNCHANGED <<svcVars, fdVars, entVars, dirVars, cb, todo, wlog, hVars>>

\* subscribe(): add_listener(); then subscribed = TRUE; continue
SubAdd ==
    /\ pc["h"] = "sub_add"
    /\ listeners' = add_listener(cb["h"].ent)
    /\ subscribed' = TRUE
    /\ cb' = [cb EXCEPT !["h"] = NoCb]
    /\ req' = NoReq
    /\ pc' = [pc EXCEPT !["h"] = "recv"]
    /\ UNCHANGED <<svcVars, fdVars, entVars, clients, mutex, leases, nevents,
                   todo, wlog, hfd, nreq>>

receive ==
    \/ HAccept
    \/ HRecv
    \/ SubLock
    \/ SubInsert
    \/ SubAdd

(* ------------------------------- destroy ------------------------------ *)

\* a teardown that destroys the first entry of the list only
destroyFirstOnly(list, st) ==
    IF list = <<>> THEN st
    ELSE entry_destroy(Head(list), mem[Head(list)].fd, st)

\* clients->destroy_function(clients, entry_destroy)
RECURSIVE destroy_function(_, _)
destroy_function(list, st) ==
    IF list = <<>> THEN st
    ELSE destroy_function(Tail(list),
                          entry_destroy(Head(list), mem[Head(list)].fd, st))

\* destroy(): the receive job has been cancelled in accept() or recv()
destroy ==
    /\ svc = "running"
    /\ pc["h"] \in {"accept", "recv", "requeue"}
    /\ LET st == destroy_function(clients, EntState) IN
        /\ fdtab' = st.fds.fdtab
        /\ closes' = st.fds.closes
        /\ badClose' = st.fds.badClose
        /\ alloc' = st.alloc
        /\ destroys' = st.destroys
    /\ clients' = <<>>
    /\ mutex' = "destroyed"
    /\ sock' = "closed"
    /\ heap' = [this |-> FALSE, clients |-> FALSE, mutex |-> FALSE]
    /\ svc' = "destroyed"
    /\ job' = FALSE
    /\ pc' = [pc EXCEPT !["h"] = "cancelled"]
    /\ UNCHANGED <<umask, path, nconn, mem, failed, dirVars, cb, todo, wlog,
                   hVars>>

(* ---------------------------- specification --------------------------- *)

Next ==
    \/ Create
    \/ receive
    \/ Requeue
    \/ LookupNext
    \/ \E t \in Threads : listener_cb(t)
    \/ \E t \in Notifiers : Fire(t) \/ NotifyNext(t) \/ NotifyRet(t)
    \/ destroy

Spec == Init /\ [][Next]_vars

\* the steps of a thread that wait for no client: list and lock operations,
\* the directory's calls, the return of listener_cb
Runs(t) ==
    \/ CbLock(t)
    \/ CbRemove(t)
    \/ CbDestroy(t)
    \/ t = "h" /\ (LookupNext \/ SubLock \/ SubInsert \/ SubAdd \/ Requeue)
    \/ t \in Notifiers /\ (NotifyNext(t) \/ NotifyRet(t))

\* full-size requests a client sends on one connection where progress
\* of the threads is at stake
LiveReqs == 1

\* recv() from such a client
LiveRecv == HRecv /\ nreq' <= LiveReqs

LiveNext ==
    \/ Create
    \/ HAccept
    \/ LiveRecv
    \/ SubLock
    \/ SubInsert
    \/ SubAdd
    \/ Requeue
    \/ LookupNext
    \/ \E t \in Threads : listener_cb(t)
    \/ \E t \in Notifiers : Fire(t) \/ NotifyNext(t) \/ NotifyRet(t)
    \/ destroy

\* every running thread is scheduled; accept() and recv() return, as clients
\* connect, send or hang up; send() is not required to return
FairSpec ==
    /\ Init
    /\ [][LiveNext]_vars
    /\ \A t \in Threads : WF_vars(Runs(t))
    /\ WF_vars(HAccept)
    /\ WF_vars(LiveRecv)

(* ------------------------------- claims ------------------------------- *)

\* a subscription the registry and the directory both hold
Registered(e) ==
    e \in Entries /\ alloc[e] = "live" /\ e \in Range(clients)
        /\ e \in listeners

\* an event the subscription did not ask for
Mismatch(up, type) ==
    \/ type = "NOTIFY_UP" /\ ~up
    \/ type = "NOTIFY_DOWN" /\ up

\* thread t calls listener_cb on the next listener of its event
Calls(t) == pc[t] = "notify" /\ todo[t] # <<>> /\ todo'[t] # todo[t]

\* C1: an event of the other direction, delivered to a registered
\* NotifyUp / NotifyDown subscriber, writes nothing: the callback returns
\* "keep" at once and the entry, its descriptor and its registrations are
\* left as they were.
C1_EventFiltering ==
    [][\A t \in Notifiers :
         (Calls(t) /\ Registered(Head(todo[t]))
             /\ Mismatch(cb[t].up, mem[Head(todo[t])].type))
         => /\ pc'[t] = "notify"
            /\ cb'[t].ret
            /\ wlog' = wlog
            /\ clients' = clients
            /\ listeners' = listeners
            /\ fdtab' = fdtab
            /\ alloc' = alloc]_vars

\* a suppressed callback has just returned to the directory
C1_Witness ==
    \E t \in Notifiers :
        /\ pc[t] = "notify"
        /\ Registered(cb[t].ent)
        /\ Mismatch(cb[t].up, mem[cb[t].ent].type)
        /\ cb[t].ret
        /\ cb[t].res = "none"
        /\ Len(todo[t]) < Cardinality(listeners)

\* C2: while the service runs, entry_destroy (close and free) happens at
\* most once per entry, however many deliveries see the write fail.
C2_ExactlyOnce ==
    svc = "running" => \A e \in Entries : destroys[e] <= 1

\* no thread is between a failed write and the removal, nor inside subscribe
Quiescent ==
    /\ \A t \in Notifiers : pc[t] \notin {"cb_lock", "cb_locked"}
    /\ pc["h"] \notin {"sub_lock", "sub_insert", "sub_add"}

\* the subscriptions made so far, and those of them that failed a write
Subscribed == {e \in Entries : alloc[e] # "unalloc"}

\* C3: with N subscribe calls completed and M of those subscriptions having
\* failed a write, the registry holds exactly N - M entries.
C3_RegistrySize ==
    (svc = "running" /\ Quiescent)
        => Len(clients) = Cardinality(Subscribed)
                              - Cardinality(failed \cap Subscribed)

\* two subscriptions were made and one of them failed a write
C3_Witness ==
    /\ svc = "running"
    /\ Quiescent
    /\ Cardinality(Subscribed) = 2
    /\ Cardinality(failed) = 1
    /\ Len(clients) = 1

\* C4: every entry of the registry has an open descriptor, and no two
\* entries of the registry have the same descriptor.
C4_RegistryDescriptors ==
    svc = "running" =>
        /\ \A i \in 1..Len(clients) : IsOpen(mem[clients[i]].fd)
        /\ \A i, j \in 1..Len(clients) :
               i # j => mem[clients[i]].fd # mem[clients[j]].fd

\* thread t returns from send() in this step
Sends(t) == pc[t] = "cb_send" /\ pc'[t] \notin {"cb_send", "crashed"}

\* the notification type of an event
NotifyType(up) == IF up THEN "NOTIFY_UP" ELSE "NOTIFY_DOWN"

\* C5: an event of the other direction does not reach send() for a
\* registered subscriber; an event of its direction is sent to it as one
\* response of its type, on its connection, and when the write returns the
\* full size the callback returns "keep", the directory does not call the
\* entry again for this event, the descriptor is open and the entry is
\* still registered.
C5_SubscriptionDelivery ==
    [][\A t \in Notifiers :
         /\ (Calls(t) /\ Registered(Head(todo[t])))
              => (pc'[t] = "cb_send")
                     = ~Mismatch(cb[t].up, mem[Head(todo[t])].type)
         /\ (Sends(t) /\ Registered(cb[t].ent) /\ cb'[t].res = "full")
              => /\ pc'[t] = "notify"
                 /\ cb'[t].ret
                 /\ cb'[t].type = NotifyType(cb[t].up)
                 /\ cb'[t].type = mem[cb[t].ent].type
                 /\ cb'[t].vip = cb[t].vip
                 /\ cb'[t].conn = fdtab[mem[cb[t].ent].fd]
                 /\ cb[t].ent \notin Range(todo'[t])
                 /\ IsOpen(mem[cb[t].ent].fd)'
                 /\ Registered(cb[t].ent)'
    ]_vars

\* a NotifyDown subscriber was called for the up event of a lease, which
\* wrote nothing, and has then been sent the down event of the same lease
C5_Witness ==
    \E t, u \in Notifiers :
        /\ t # u
        /\ pc[u] = "notify"
        /\ cb[u].up
        /\ cb[u].res = "none"
        /\ pc[t] = "notify"
        /\ ~cb[t].up
        /\ cb[t].res = "full"
        /\ cb[t].ent = cb[u].ent
        /\ cb[t].vip = cb[u].vip
        /\ Registered(cb[t].ent)
        /\ mem[cb[t].ent].type = "NOTIFY_DOWN"
        /\ IsOpen(mem[cb[t].ent].fd)
        /\ failed = {}

\* the longest prefix of s that a buffer of cap bytes can hold
Fits(s, cap) ==
    SubSeq(s, 1, CHOOSE n \in 0..Len(s) :
                     n < cap /\ (n = Len(s) \/ n = cap - 1))

\* the record a client is to get for the lease of v
EntryOf(v) ==
    [type |-> "ENTRY",
     vip  |-> Fits(HostStr(v), VipCap),
     ip   |-> Fits(LeasePeer(v), VipCap),
     id   |-> Fits(LeaseId(v), NameCap),
     name |-> Fits(LeaseName(v), NameCap)]

\* receive is inside query() for a request of the given type
InQuery(type) == pc["h"] \in {"lookup", "cb_send"} /\ req.type = type

\* the leases of the query in progress: answered, being answered, to come
Answered == [i \in 1..Len(wlog) |-> wlog[i].resp]
Pending ==
    Answered
        \o (IF pc["h"] = "cb_send" THEN <<EntryOf(cb["h"].vip)>> ELSE <<>>)
        \o [i \in 1..Len(todo["h"]) |-> EntryOf(todo["h"][i])]

\* receive reads a request of the given type in this step
Reads(type) == pc["h"] = "recv" /\ pc'["h"] # "requeue" /\ req'.type = type

\* query() is left in this step
QueryEnds(type) == InQuery(type) /\ pc'["h"] \notin {"lookup", "cb_send"}

\* every response of the query went to the connection it was asked on
OwnConnection == \A i \in 1..Len(wlog) : wlog[i].ok => wlog[i].conn = nconn

\* the step leaves the registry and the descriptors alone
Untouched ==
    /\ fdtab' = fdtab
    /\ clients' = clients
    /\ listeners' = listeners
    /\ hfd' = hfd
    /\ subscribed' = subscribed

\* C6: a Lookup of a leased address sends exactly one response, the Entry
\* record of that lease, on the requesting connection; receive then reads
\* the next request from the same descriptor, which it has not closed.
C6_LookupHit ==
    [][/\ \A v \in VIPs :
            (Reads("LOOKUP") /\ req'.vip = HostStr(v) /\ v \in leases)
                => InQuery("LOOKUP")' /\ Pending' = <<EntryOf(v)>>
                       /\ wlog' = <<>>
       /\ (InQuery("LOOKUP") /\ InQuery("LOOKUP")')
            => Pending' = Pending /\ OwnConnection'
       /\ QueryEnds("LOOKUP")
            => todo["h"] = <<>> /\ pc["h"] = "lookup" /\ pc'["h"] = "recv"
                   /\ Untouched
    ]_vars

\* the one response of a Lookup has been written and the loop goes on
C6_Witness ==
    /\ InQuery("LOOKUP")
    /\ pc["h"] = "lookup"
    /\ todo["h"] = <<>>
    /\ Len(wlog) = 1
    /\ wlog[1].ok
    /\ wlog[1].conn = nconn
    /\ IsOpen(hfd)
    /\ nreq < MaxReqs

\* C7: a Dump sends one Entry record per leased address, each with the
\* data of its lease, none twice and none left out; receive then reads the
\* next request.
C7_DumpComplete ==
    [][/\ Reads("DUMP")
            => /\ InQuery("DUMP")'
               /\ wlog' = <<>>
               /\ Len(Pending') = Cardinality(leases)
               /\ {Pending'[i] : i \in 1..Len(Pending')}
                      = {EntryOf(v) : v \in leases}
       /\ (InQuery("DUMP") /\ InQuery("DUMP")')
            => Pending' = Pending /\ OwnConnection'
       /\ QueryEnds("DUMP")
            => todo["h"] = <<>> /\ pc["h"] = "lookup" /\ pc'["h"] = "recv"
                   /\ Untouched
    ]_vars

\* a Dump of two leases has written both records
C7_Witness ==
    /\ InQuery("DUMP")
    /\ pc["h"] = "lookup"
    /\ todo["h"] = <<>>
    /\ Len(wlog) = 2
    /\ wlog[1].ok /\ wlog[2].ok
    /\ wlog[1].resp # wlog[2].resp

\* C8: a Lookup of an address that is not leased sends nothing and is no
\* error: the registry and the descriptors are left alone and receive reads
\* the next request.
C8_LookupMiss ==
    [][/\ \A v \in VIPs :
            (Reads("LOOKUP") /\ req'.vip = HostStr(v) /\ v \notin leases)
                => InQuery("LOOKUP")' /\ Pending' = <<>> /\ Untouched
       /\ (InQuery("LOOKUP") /\ Pending = <<>> /\ pc'["h"] # pc["h"])
            => pc'["h"] = "recv" /\ wlog' = <<>> /\ Untouched
    ]_vars

\* a Lookup found no lease although there is one for another address
C8_Witness ==
    /\ InQuery("LOOKUP")
    /\ Pending = <<>>
    /\ leases # {}
    /\ IsOpen(hfd)
    /\ nevents = 1

\* the read loop of receive ends in this step
LoopEnds == pc["h"] = "recv" /\ pc'["h"] = "requeue"

\* C9: when the read loop ends, the descriptor is closed if the connection
\* never subscribed, and left as it is if it did, whatever ended the loop.
C9_CloseUnlessSubscribed ==
    [][LoopEnds =>
         IF subscribed
         THEN fdtab' = fdtab /\ closes' = closes
         ELSE /\ ~IsOpen(hfd)'
              /\ \A f \in FDSet \ {hfd} : fdtab'[f] = fdtab[f]
              /\ IsOpen(hfd) => closes'[fdtab[hfd]] = closes[fdtab[hfd]] + 1
    ]_vars

\* the loop ended with a subscription made: the descriptor is still open
C9_Witness ==
    /\ pc["h"] = "requeue"
    /\ req.type = "END"
    /\ subscribed
    /\ IsOpen(hfd)
    /\ closes[fdtab[hfd]] = 0

\* C10: a failed creation leaves nothing behind: no job, no open socket,
\* the umask as it was, nothing allocated.
C10_AtomicStartup ==
    svc = "failed" =>
        /\ ~job
        /\ sock # "open"
        /\ umask = "orig"
        /\ ~heap.this /\ ~heap.clients /\ ~heap.mutex

\* destroy() runs in this step
Shutdown == svc = "running" /\ svc' = "destroyed"

\* a notification thread has taken the entry out of the registry and is
\* about to destroy it
InTeardown(e) == \E t \in Notifiers : pc[t] = "cb_destroy" /\ cb[t].ent = e

\* C11: shutdown closes the listening socket, empties the registry and
\* destroys every entry that was in it, closing its descriptor; afterwards
\* the registry stays empty and the only entries not yet released are
\* those a failed write has already removed and is releasing.
C11_ShutdownComplete ==
    [][/\ Shutdown
            => /\ sock' = "closed"
               /\ clients' = <<>>
               /\ \A e \in Range(clients) :
                      alloc'[e] = "freed" /\ ~IsOpen(mem[e].fd)'
       /\ svc' = "destroyed"
            => /\ clients' = <<>>
               /\ sock' = "closed"
               /\ \A e \in Entries : alloc'[e] = "live" => InTeardown(e)'
    ]_vars

\* shutdown has destroyed two subscriptions of two connections
C11_Witness ==
    /\ svc = "destroyed"
    /\ failed = {}
    /\ \A e \in Entries : alloc[e] = "freed" /\ destroys[e] = 1
    /\ \A c \in Conns : closes[c] = 1
    /\ \A f \in FDSet : ~IsOpen(f)

\* thread t takes an entry out of the registry in this step
Removes(t) == pc[t] = "cb_locked" /\ pc'[t] = "cb_destroy"

\* subscribe() puts its entry into the registry in this step
Inserts == pc["h"] = "sub_insert" /\ pc'["h"] = "sub_add"

\* C12: the registry is inserted into and removed from only by a thread
\* that holds the registry lock, and shutdown destroys its entries only
\* while no other thread holds the lock.
C12_LockDiscipline ==
    [][/\ \A t \in Threads : Removes(t) => mutex = t
       /\ Inserts => mutex = "h"
       /\ Shutdown => mutex \notin Threads
    ]_vars

\* thread t has not faulted
Alive(t) == pc[t] # "crashed"

\* where a thread holds the lock: between lock() and unlock(), around the
\* insert or the remove
LockScope ==
    \A t \in Threads :
        (mutex = t /\ Alive(t)) => pc[t] \in {"cb_locked", "sub_insert"}

\* thread t waits for the registry lock
Waits(t) == pc[t] \in {"cb_lock", "sub_lock"}

\* C13: a thread holds the registry lock only around the insert or the
\* remove, never in send(), accept() or recv(); and a thread that waits for
\* the lock gets it (unless the process has faulted).
C13_MinimalLockScope ==
    /\ []LockScope
    /\ \A t \in Threads :
           Waits(t) ~> (~Waits(t) \/ \E u \in Threads : ~Alive(u))

\* a thread waits for the lock while another thread holds it, and a third
\* is in send()
C13_Witness ==
    \E t, u, w \in Threads :
        /\ pc[t] = "cb_lock"
        /\ mutex = u
        /\ u # t
        /\ pc[u] = "cb_locked"
        /\ pc[w] = "cb_send"
        /\ \A x \in Threads : Alive(x)

\* the accept loop is alive: receive is back in accept(), or the service is
\* not running (any more), or the process has faulted
AcceptLoopAlive ==
    \/ pc["h"] = "accept"
    \/ svc # "running"
    \/ \E u \in Threads : ~Alive(u)

\* C14: no thread is in send() with the registry lock held, and whatever
\* writes never return, receive comes back to accept() again and again.
C14_StallIsolation ==
    /\ [](\A t \in Threads : pc[t] = "cb_send" => mutex # t)
    /\ []<>AcceptLoopAlive

\* receive returns from recv() in this step
HandlerReads ==
    /\ pc["h"] = "recv"
    /\ svc' = svc
    /\ pc'["h"] # "recv" \/ nreq' # nreq

\* C15: one invocation of receive accepts at most one connection; End, an
\* unknown type and a read of another length end the read loop; a failed
\* accept and the end of the loop return to the scheduler, which runs the
\* job again.
C15_HandlerCycle ==
    /\ [][/\ nconn' # nconn
               => pc["h"] = "accept" /\ nconn' = nconn + 1
                      /\ pc'["h"] = "recv"
          /\ (pc["h"] = "accept" /\ pc'["h"] \notin {"accept", "cancelled"})
               => pc'["h"] \in {"recv", "requeue"}
          /\ (pc'["h"] = "accept" /\ pc["h"] # "accept")
               => pc["h"] \in {"requeue", "none"}
          /\ (HandlerReads /\ req'.type \in {"END", "UNKNOWN"})
               => pc'["h"] = "requeue"
          /\ (pc["h"] = "requeue" /\ pc'["h"] # "requeue")
               => pc'["h"] \in {"accept", "cancelled"}
       ]_vars
    /\ (pc["h"] = "requeue") ~> (pc["h"] = "accept" \/ svc # "running")

\* receive has served and closed one connection and has been run again
C15_Witness ==
    /\ pc["h"] = "accept"
    /\ nconn = 1
    /\ closes[1] = 1
    /\ ~IsOpen(hfd)
    /\ ~subscribed
    /\ nreq = 1

\* C16: listener_cb returns "keep" exactly when send() returned the full
\* size.  On any other result a subscription is taken to the teardown, and
\* "stop" is returned for it only with the entry out of the registry,
\* released and its descriptor closed; for the entry of a query "stop" is
\* returned at once, registry and descriptors left as they are.
C16_AllOrDrop ==
    [][\A t \in Threads :
         /\ Sends(t)
              => /\ (cb'[t].res = "full")
                        = (cb'[t].ret /\ pc'[t] = AfterCb(t, TRUE))
                 /\ (cb'[t].res # "full" /\ cb[t].ent = Transient)
                      => /\ ~cb'[t].ret
                         /\ pc'[t] = AfterCb(t, FALSE)
                         /\ clients' = clients
                         /\ fdtab' = fdtab
                         /\ alloc' = alloc
                 /\ (cb'[t].res # "full" /\ cb[t].ent # Transient
                        /\ ~Dangling(cb[t].ent))
                      => pc'[t] = "cb_lock"
         /\ (pc[t] # "cb_ret" /\ pc'[t] = "cb_ret")
              => /\ pc[t] = "cb_destroy" \/ Dangling(cb[t].ent)
                 /\ ~cb'[t].ret
                 /\ cb[t].ent \notin Range(clients')
                 /\ alloc'[cb[t].ent] = "freed"
                 /\ alloc[cb[t].ent] = "live" => ~IsOpen(mem[cb[t].ent].fd)'
    ]_vars

\* a partial write to a subscriber has put its entry on the way to teardown
C16_Witness ==
    \E t \in Notifiers :
        /\ pc[t] = "cb_lock"
        /\ cb[t].res = "partial"
        /\ Registered(cb[t].ent)
        /\ IsOpen(mem[cb[t].ent].fd)

\* the string names no address
Unparseable(str) == \A v \in VIPs : str # HostStr(v)

\* C17: a Lookup whose address does not parse is ignored: no lookup is
\* made, nothing is written, registry and descriptors are left alone and
\* receive reads the next request; a request of unknown type ends the loop.
C17_UnparseableLookup ==
    [][/\ (HandlerReads /\ req'.type = "LOOKUP" /\ Unparseable(req'.vip))
            => /\ pc'["h"] = "recv"
               /\ todo' = todo
               /\ wlog' = wlog
               /\ cb' = cb
               /\ alloc' = alloc
               /\ Untouched
       /\ (HandlerReads /\ req'.type = "UNKNOWN") => pc'["h"] = "requeue"
    ]_vars

\* a Lookup of an unparseable address has been read while a lease exists,
\* and receive is reading on
C17_Witness ==
    /\ pc["h"] = "recv"
    /\ req.type = "LOOKUP"
    /\ Unparseable(req.vip)
    /\ nreq = 1
    /\ leases # {}
    /\ IsOpen(hfd)

\* C18: receive is never in recv() on a descriptor that has been closed,
\* and no send() goes to the closed descriptor of an entry.
C18_NoUseOfClosed ==
    /\ pc["h"] = "recv" => IsOpen(hfd)
    /\ \A t \in Threads :
           (pc[t] = "cb_send" /\ cb[t].ent # Transient
               /\ ~Dangling(cb[t].ent))
           => IsOpen(mem[cb[t].ent].fd)

\* C19: no close() is ever issued for a descriptor that is not open, and
\* no connection sees its descriptor closed more than once.
C19_SingleClose ==
    /\ ~badClose
    /\ \A c \in Conns : closes[c] <= 1

\* C20: every entry the directory holds as a listener is allocated, not
\* released, and in the registry.
C20_RegistryCoversListeners ==
    \A e \in listeners : alloc[e] = "live" /\ e \in Range(clients)

====
